---- MODULE Spec2Model ----
(***************************************************************************)
(* nvim-dbee: the Databricks adapter and driver                            *)
(* (dbee/adapters/databricks_driver.go, dbee/adapters/databricks.go) and   *)
(* the plugin host's id-to-client registry (main.go).                      *)
(*                                                                         *)
(* The specifications of this module:                                      *)
(*   Spec      one databricksDriver, created by Databricks.Connect, used   *)
(*             by concurrent callers (SelectDatabase, Query, Structure,    *)
(*             ListDatabases);                                             *)
(*   SpecMain  main.go: the clientMap and its three RPC handlers, run as   *)
(*             concurrent goroutines, and the deferred teardown loop;      *)
(*   SpecStructure  one Structure() call row by row, with the classifier   *)
(*             getDatabricksStructureType;                                 *)
(*   SpecStream     one stream of Query, page by page;                     *)
(*   SpecList       one ListDatabases() call row by row.                   *)
(***************************************************************************)
EXTENDS Integers, Sequences, FiniteSets, TLC

\* Bound: the number of sql.Open calls that succeed (Connect and SelectDatabase).
MaxHandles == 3

\* The goroutines that call into the one driver.
Procs == {1, 2}

\* The catalog names of the model; "" is a missing catalog parameter.
Catalogs == {"c1", "c2"}

\* The connection strings handed to Connect: well-formed or not (url.Parse
\* fails), and the value of their catalog parameter.
ConnectionStrings == [wellFormed : BOOLEAN, catalog : Catalogs \cup {""}]

\* Bound: the number of clients the constructors of main.go return.
MaxClients == 2

\* The connection ids, urls and backend types the host passes to main.go.
Ids == {"a", "b"}
Urls == {"good", "bad"}
Types == {"postgres", "redis", "databricks"}

\* The third argument of Dbee_execute: a buffer number, or not a number.
Bufnrs == {"7", "x"}

VARIABLES
    \* ---- the Databricks driver (Spec) ----
    handles,         \* the *sql.DB handles sql.Open has returned, in order of opening
    driverOpen,      \* Connect has returned a driver
    connectResult,   \* what the last Connect returned
    db,              \* builders.Client.db: the client's live handle (index into handles)
    connectionURL,   \* databricksDriver.connectionURL (its catalog parameter)
    currentCatalog,  \* databricksDriver.currentCatalog
    pc,              \* each caller's position
    op,              \* the operation a caller is in, or has just returned from
    name,            \* SelectDatabase's argument
    newdb,           \* SelectDatabase's local db
    old,             \* Swap's local: the handle it replaced
    qh,              \* the handle a caller's query runs on
    qcat,            \* the catalog Structure wrote into its query text
    ret,             \* what the call returned, while the caller holds the result
    cur,             \* the current value ListDatabases returned
    pre,             \* history: the driver's fields when SelectDatabase was called
    \* ---- main.go (SpecMain) ----
    clientMap,       \* clientMap: id -> client (index into clients, 0: no entry)
    clients,         \* the clients the constructors have returned, in order
    proc,            \* the plugin process: serving, sweeping (deferred loop), exited, crashed
    todo,            \* the ids the deferred loop's range has yet to visit
    hpc,             \* each handler goroutine's position
    hop,             \* the handler it runs, or has just returned from
    args,            \* the handler's args []string
    client,          \* the handler's local client
    hret,            \* what the handler returned
    racy,            \* the handler's map access overlapped a conflicting one
    truth            \* history: the map's entry for the id when the lookup ended

\* One Structure() call in detail (databricks_driver.go, Structure and
\* getDatabricksStructureType; the fold is core.GetGenericStructure).
VARIABLES
    rows,           \* the (schema, name, kind) rows the backend answers with
    spc,            \* position of the Structure call
    pos,            \* rows the fold has consumed
    acc,            \* the schema nodes built so far
    tree,           \* the tree the call returned (empty for nil)
    sret,           \* its error result
    prev            \* the tree of the previous successful call, if any

\* One stream of Query in detail (databricks_driver.go, Query; the paging
\* loop is builders.Client.QueryUntilNotEmpty).
VARIABLES
    pages,          \* the backend's result: the number of rows of each page
    qpc,            \* position of the stream: idle, paging, ready, exhausted, failed
    page,           \* pages requested so far
    buf,            \* rows of the current page not yet handed out
    got             \* rows Next has handed to the caller

\* One ListDatabases() call in detail (databricks_driver.go, ListDatabases).
VARIABLES
    lrows,          \* the first values of the rows SHOW CATALOGS answers with
    lpc,            \* position of the call: idle, loop, done
    lpos,           \* rows Next has returned
    available,      \* the named result available, as built so far
    stream,         \* the stream of the call's query: none, open, released
    lcur,           \* the returned current
    lavail,         \* the returned available (empty for nil)
    lerr            \* the returned err

shared == <<handles, driverOpen, connectResult, db, connectionURL, currentCatalog>>
locals == <<pc, op, name, newdb, old, qh, qcat, ret, cur, pre>>
driverVars == <<shared, locals>>

registry == <<clientMap, clients, proc, todo>>
hlocals == <<hpc, hop, args, client, hret, racy, truth>>
mainVars == <<registry, hlocals>>

structureVars == <<rows, spc, pos, acc, tree, sret, prev>>
streamVars == <<pages, qpc, page, buf, got>>
listVars == <<lrows, lpc, lpos, available, stream, lcur, lavail, lerr>>
detailVars == <<structureVars, streamVars, listVars>>

vars == <<driverVars, mainVars, detailVars>>

NoSnapshot == [url |-> "", cat |-> "", db |-> 0]

InitDriver ==
    /\ handles = <<>>
    /\ driverOpen = FALSE
    /\ connectResult = "none"
    /\ db = 0
    /\ connectionURL = [catalog |-> ""]
    /\ currentCatalog = ""
    /\ pc = [p \in Procs |-> "idle"]
    /\ op = [p \in Procs |-> "none"]
    /\ name = [p \in Procs |-> ""]
    /\ newdb = [p \in Procs |-> 0]
    /\ old = [p \in Procs |-> 0]
    /\ qh = [p \in Procs |-> 0]
    /\ qcat = [p \in Procs |-> ""]
    /\ ret = [p \in Procs |-> "none"]
    /\ cur = [p \in Procs |-> ""]
    /\ pre = [p \in Procs |-> NoSnapshot]

\* sql.Open("databricks", dsn): a new handle against the DSN's catalog.
\* by: 0 for Connect, the caller for SelectDatabase.
sqlOpen(cat, by) == Append(handles, [cat |-> cat, closes |-> 0, by |-> by])

\* (*sql.DB).Close on handle h.
sqlClose(hs, h) == [hs EXCEPT ![h].closes = @ + 1]

IsOpen(h) == h \in 1..Len(handles) /\ handles[h].closes = 0

(***************************************************************************)
(* Databricks.Connect                                                      *)
(***************************************************************************)
Connect(u) ==
    /\ ~driverOpen
    /\ Len(handles) < MaxHandles
    /\ UNCHANGED <<locals, mainVars, detailVars>>
    /\ IF ~u.wellFormed
       THEN \* url.Parse fails
            /\ connectResult' = "parse_error"
            /\ UNCHANGED <<handles, driverOpen, db, connectionURL, currentCatalog>>
       ELSE \E openOk \in BOOLEAN :
            IF ~openOk
            THEN /\ connectResult' = "open_error"
                 /\ UNCHANGED <<handles, driverOpen, db, connectionURL, currentCatalog>>
            ELSE /\ handles' = sqlOpen(u.catalog, 0)
                 /\ IF u.catalog = ""
                    THEN \* the handle is not closed on this return
                         /\ connectResult' = "missing_catalog"
                         /\ UNCHANGED <<driverOpen, db, connectionURL, currentCatalog>>
                    ELSE /\ connectResult' = "ok"
                         /\ driverOpen' = TRUE
                         /\ db' = Len(handles')
                         /\ connectionURL' = [catalog |-> u.catalog]
                         /\ currentCatalog' = u.catalog

(***************************************************************************)
(* The callers of the driver. A call ends at "done", where the caller      *)
(* holds what the call returned; it then drops the result and is free to   *)
(* call again.                                                             *)
(***************************************************************************)
\* The call of p starts: operation o, at position at.
Enter(p, o, at) ==
    /\ UNCHANGED <<mainVars, detailVars>>
    /\ driverOpen
    /\ pc[p] = "idle"
    /\ pc' = [pc EXCEPT ![p] = at]
    /\ op' = [op EXCEPT ![p] = o]

\* The call of p returns r: its locals are gone.
Leave(p, r) ==
    /\ pc' = [pc EXCEPT ![p] = "done"]
    /\ ret' = [ret EXCEPT ![p] = r]
    /\ name' = [name EXCEPT ![p] = ""]
    /\ newdb' = [newdb EXCEPT ![p] = 0]
    /\ old' = [old EXCEPT ![p] = 0]
    /\ qh' = [qh EXCEPT ![p] = 0]
    /\ qcat' = [qcat EXCEPT ![p] = ""]
    /\ pre' = [pre EXCEPT ![p] = NoSnapshot]

Caller_drop(p) ==
    /\ UNCHANGED <<mainVars, detailVars>>
    /\ pc[p] = "done"
    /\ pc' = [pc EXCEPT ![p] = "idle"]
    /\ op' = [op EXCEPT ![p] = "none"]
    /\ ret' = [ret EXCEPT ![p] = "none"]
    /\ cur' = [cur EXCEPT ![p] = ""]
    /\ UNCHANGED <<shared, name, newdb, old, qh, qcat, pre>>

(***************************************************************************)
(* databricksDriver.SelectDatabase, one action per shared-memory step      *)
(***************************************************************************)
\* q := c.connectionURL.Query(); q.Set("catalog", name);
\* c.connectionURL.RawQuery = q.Encode()
SelectDatabase_setURL(p, n) ==
    /\ Enter(p, "SelectDatabase", "sd_open")
    /\ Len(handles) + Cardinality({q \in Procs : pc[q] = "sd_open"}) < MaxHandles
    /\ name' = [name EXCEPT ![p] = n]
    /\ pre' = [pre EXCEPT ![p] = [url |-> connectionURL.catalog,
                                  cat |-> currentCatalog, db |-> db]]
    /\ connectionURL' = [connectionURL EXCEPT !.catalog = n]
    /\ UNCHANGED <<handles, driverOpen, connectResult, db, currentCatalog,
                   newdb, old, qh, qcat, ret, cur>>

\* db, err := sql.Open("databricks", c.connectionURL.String())
\* if err != nil { return fmt.Errorf(...) }
SelectDatabase_open(p) ==
    /\ UNCHANGED <<mainVars, detailVars>>
    /\ pc[p] = "sd_open"
    /\ \E openOk \in BOOLEAN :
         IF openOk
         THEN /\ handles' = sqlOpen(connectionURL.catalog, p)
              /\ newdb' = [newdb EXCEPT ![p] = Len(handles')]
              /\ pc' = [pc EXCEPT ![p] = "sd_setcat"]
              /\ UNCHANGED <<name, old, qh, qcat, ret, pre>>
         ELSE /\ Leave(p, "err")
              /\ UNCHANGED handles
    /\ UNCHANGED <<driverOpen, connectResult, db, connectionURL, currentCatalog,
                   op, cur>>

\* A variant of the step below that also closes the live handle itself
\* before handing the new one to Swap.
SelectDatabase_setCatalog_closeFirst(p) ==
    /\ UNCHANGED <<mainVars, detailVars>>
    /\ pc[p] = "sd_setcat"
    /\ currentCatalog' = name[p]
    /\ handles' = sqlClose(handles, db)
    /\ pc' = [pc EXCEPT ![p] = "swap_exchange"]
    /\ UNCHANGED <<driverOpen, connectResult, db, connectionURL, op,
                   name, newdb, old, qh, qcat, ret, cur, pre>>

\* c.currentCatalog = name, then the call of c.c.Swap(db)
SelectDatabase_setCatalog(p) ==
    /\ UNCHANGED <<mainVars, detailVars>>
    /\ pc[p] = "sd_setcat"
    /\ currentCatalog' = name[p]
    /\ pc' = [pc EXCEPT ![p] = "swap_exchange"]
    /\ UNCHANGED <<handles, driverOpen, connectResult, db, connectionURL, op,
                   name, newdb, old, qh, qcat, ret, cur, pre>>

\* builders.Client.Swap, first half: the live handle is exchanged for the
\* new one in one step.
Swap_exchange(p) ==
    /\ UNCHANGED <<mainVars, detailVars>>
    /\ pc[p] = "swap_exchange"
    /\ old' = [old EXCEPT ![p] = db]
    /\ db' = newdb[p]
    /\ pc' = [pc EXCEPT ![p] = "swap_close"]
    /\ UNCHANGED <<handles, driverOpen, connectResult, connectionURL,
                   currentCatalog, op, name, newdb, qh, qcat, ret, cur, pre>>

\* builders.Client.Swap, second half: the handle that was replaced is closed.
Swap_closeOld(p) ==
    /\ UNCHANGED <<mainVars, detailVars>>
    /\ pc[p] = "swap_close"
    /\ handles' = sqlClose(handles, old[p])
    /\ pc' = [pc EXCEPT ![p] = "sd_return"]
    /\ UNCHANGED <<driverOpen, connectResult, db, connectionURL, currentCatalog,
                   op, name, newdb, old, qh, qcat, ret, cur, pre>>

\* return nil
SelectDatabase_return(p) ==
    /\ UNCHANGED <<mainVars, detailVars>>
    /\ pc[p] = "sd_return"
    /\ Leave(p, "ok")
    /\ UNCHANGED <<shared, op, cur>>

(***************************************************************************)
(* databricksDriver.Query: builders.Client.QueryUntilNotEmpty reads the    *)
(* client's handle once and runs the query on it.                          *)
(***************************************************************************)
Query_start(p) ==
    /\ Enter(p, "Query", "q_run")
    /\ qh' = [qh EXCEPT ![p] = db]
    /\ UNCHANGED <<shared, name, newdb, old, qcat, ret, cur, pre>>

\* The query completes or fails on the handle it started on; on a closed
\* handle it can only fail.
QueryOutcomes(h) == IF IsOpen(h) THEN {"ok", "err"} ELSE {"err"}

Query_run(p) ==
    /\ UNCHANGED <<mainVars, detailVars>>
    /\ pc[p] = "q_run"
    /\ \E r \in QueryOutcomes(qh[p]) : Leave(p, r)
    /\ UNCHANGED <<shared, op, cur>>

(***************************************************************************)
(* databricksDriver.Structure                                              *)
(***************************************************************************)
\* catalogQuery := fmt.Sprintf(..., d.currentCatalog)
Structure_start(p) ==
    /\ Enter(p, "Structure", "st_query")
    /\ qcat' = [qcat EXCEPT ![p] = currentCatalog]
    /\ UNCHANGED <<shared, name, newdb, old, qh, ret, cur, pre>>

\* rows, err := d.Query(context.Background(), catalogQuery)
Structure_query(p) ==
    /\ UNCHANGED <<mainVars, detailVars>>
    /\ pc[p] = "st_query"
    /\ qh' = [qh EXCEPT ![p] = db]
    /\ pc' = [pc EXCEPT ![p] = "st_run"]
    /\ UNCHANGED <<shared, op, name, newdb, old, qcat, ret, cur, pre>>

\* if err != nil { return nil, err }; return core.GetGenericStructure(...)
Structure_run(p) ==
    /\ UNCHANGED <<mainVars, detailVars>>
    /\ pc[p] = "st_run"
    /\ \E r \in QueryOutcomes(qh[p]) : Leave(p, r)
    /\ UNCHANGED <<shared, op, cur>>

(***************************************************************************)
(* databricksDriver.ListDatabases                                          *)
(***************************************************************************)
\* rows, err := d.Query(context.Background(), `SHOW CATALOGS;`)
ListDatabases_start(p) ==
    /\ Enter(p, "ListDatabases", "ld_run")
    /\ qh' = [qh EXCEPT ![p] = db]
    /\ UNCHANGED <<shared, name, newdb, old, qcat, ret, cur, pre>>

\* if err != nil { return "", nil, err }; the loop over rows, which returns
\* "", nil, err when a row fails
ListDatabases_run(p) ==
    /\ UNCHANGED <<mainVars, detailVars>>
    /\ pc[p] = "ld_run"
    /\ \E r \in QueryOutcomes(qh[p]) :
         IF r = "ok"
         THEN /\ pc' = [pc EXCEPT ![p] = "ld_return"]
              /\ UNCHANGED <<name, newdb, old, qh, qcat, ret, pre>>
         ELSE Leave(p, "err")
    /\ UNCHANGED <<shared, op, cur>>

\* return d.currentCatalog, available, nil
ListDatabases_return(p) ==
    /\ UNCHANGED <<mainVars, detailVars>>
    /\ pc[p] = "ld_return"
    /\ cur' = [cur EXCEPT ![p] = currentCatalog]
    /\ Leave(p, "ok")
    /\ UNCHANGED <<shared, op>>

(***************************************************************************)
(* main.go: the clientMap, the three handlers registered with plugin.Main  *)
(* and the deferred close loop. Each RPC request runs its handler in its   *)
(* own goroutine; the map is a plain Go map with no lock around it, so an  *)
(* access that overlaps a write is a data race: the runtime may stop the   *)
(* process (fatal error: concurrent map read and map write / concurrent    *)
(* map writes), and otherwise the access may or may not take effect.       *)
(***************************************************************************)
\* adapters.register(adapter, name): the name resolves from then on (the last
\* registration under a name wins).
register(registry0, n) == registry0 \cup {n}

\* func init() { _ = register(&Databricks{}, "databricks") }: the adapter
\* registry when main starts.
adapterRegistry == register({}, "databricks")

InitMain ==
    /\ clientMap = [i \in Ids |-> 0]
    /\ clients = <<>>
    /\ proc = "serving"
    /\ todo = {}
    /\ hpc = [p \in Procs |-> "idle"]
    /\ hop = [p \in Procs |-> "none"]
    /\ args = [p \in Procs |-> <<>>]
    /\ client = [p \in Procs |-> 0]
    /\ hret = [p \in Procs |-> "none"]
    /\ racy = [p \in Procs |-> FALSE]
    /\ truth = [p \in Procs |-> 0]

\* The argument lists the host may pass: the full lists (id, url, type) and
\* (id, query, bufnr), and lists cut short.  Of a short list only the
\* length is read, of a two-element Dbee_execute list the id; the url of a
\* type the switch does not know is not read, and "redis" goes the way of
\* "postgres".
RegisterArgs ==
    {<<>>, <<"a">>, <<"a", "good">>}
        \cup {<<i, u, "postgres">> : i \in Ids, u \in Urls}
        \cup {<<"b", "good", "redis">>, <<"a", "good", "databricks">>}
ExecuteArgs ==
    {<<>>, <<"a">>, <<"a", "q">>, <<"a", "q", "x">>}
        \cup {<<i, "q", "7">> : i \in Ids}
SchemaArgs == {<<>>} \cup {<<i>> : i \in Ids}

Running == proc \in {"serving", "sweeping"}

InWrite(p) == hpc[p] = "reg_storing"
InRead(p) == hpc[p] \in {"ex_looking", "gs_looking"}

\* A handler starts on a request: the process still serves.
HEnter(p, h, a) ==
    /\ UNCHANGED <<driverVars, detailVars>>
    /\ proc = "serving"
    /\ hpc[p] = "idle"
    /\ hop' = [hop EXCEPT ![p] = h]
    /\ args' = [args EXCEPT ![p] = a]

\* The handler of p returns r.
HLeave(p, r) ==
    /\ hpc' = [hpc EXCEPT ![p] = "done"]
    /\ hret' = [hret EXCEPT ![p] = r]

\* The caller has the result; the goroutine ends.
Handler_drop(p) ==
    /\ UNCHANGED <<driverVars, detailVars>>
    /\ Running
    /\ hpc[p] = "done"
    /\ hpc' = [hpc EXCEPT ![p] = "idle"]
    /\ hop' = [hop EXCEPT ![p] = "none"]
    /\ args' = [args EXCEPT ![p] = <<>>]
    /\ client' = [client EXCEPT ![p] = 0]
    /\ hret' = [hret EXCEPT ![p] = "none"]
    /\ truth' = [truth EXCEPT ![p] = 0]
    /\ UNCHANGED <<registry, racy>>

\* clients.NewPostgres(url), clients.NewRedis(url): a new client, or an error.
NewClientFails(url) == url = "bad"
NewClient == Append(clients, [closes |-> 0, registered |-> FALSE])

\* A variant of the handler below that stores the constructor's result
\* before it looks at the constructor's error.
Register_new_storeFirst(p, a) ==
    /\ HEnter(p, "register", a)
    /\ IF Len(a) < 3
       THEN /\ HLeave(p, "not_enough_arguments")
            /\ UNCHANGED <<registry, client, racy, truth>>
       ELSE IF a[3] \notin {"postgres", "redis"}
       THEN /\ HLeave(p, "unsupported")
            /\ UNCHANGED <<registry, client, racy, truth>>
       ELSE IF NewClientFails(a[2])
       THEN /\ HLeave(p, "connect_error")
            /\ clientMap' = [clientMap EXCEPT ![a[1]] = 0]
            /\ UNCHANGED <<clients, proc, todo, client, racy, truth>>
       ELSE /\ Len(clients) < MaxClients
            /\ clients' = NewClient
            /\ client' = [client EXCEPT ![p] = Len(clients')]
            /\ hpc' = [hpc EXCEPT ![p] = "reg_storing"]
            /\ racy' = [q \in Procs |->
                          IF q = p THEN \E o \in Procs \ {p} : InWrite(o) \/ InRead(o)
                          ELSE racy[q] \/ InWrite(q) \/ InRead(q)]
            /\ UNCHANGED <<clientMap, proc, todo, hret, truth>>

\* Dbee_register_client up to the store: the length check, the switch on
\* typ and the constructor; with a client, the map write clientMap[id] =
\* client begins ...
Register_new(p, a) ==
    /\ HEnter(p, "register", a)
    /\ IF Len(a) < 3
       THEN /\ HLeave(p, "not_enough_arguments")
            /\ UNCHANGED <<registry, client, racy, truth>>
       ELSE IF a[3] \notin {"postgres", "redis"}
       THEN /\ HLeave(p, "unsupported")
            /\ UNCHANGED <<registry, client, racy, truth>>
       ELSE IF NewClientFails(a[2])
       THEN /\ HLeave(p, "connect_error")
            /\ UNCHANGED <<registry, client, racy, truth>>
       ELSE /\ Len(clients) < MaxClients
            /\ clients' = NewClient
            /\ client' = [client EXCEPT ![p] = Len(clients')]
            /\ hpc' = [hpc EXCEPT ![p] = "reg_storing"]
            /\ racy' = [q \in Procs |->
                          IF q = p THEN \E o \in Procs \ {p} : InWrite(o) \/ InRead(o)
                          ELSE racy[q] \/ InWrite(q) \/ InRead(q)]
            /\ UNCHANGED <<clientMap, proc, todo, hret, truth>>

\* ... and ends; return nil. A write that raced is applied, lost, or stops
\* the process.
Register_storeEnd(p) ==
    /\ UNCHANGED <<driverVars, detailVars>>
    /\ Running
    /\ hpc[p] = "reg_storing"
    /\ racy' = [racy EXCEPT ![p] = FALSE]
    /\ UNCHANGED <<todo, hop, args, client, truth>>
    /\ \E outcome \in (IF racy[p] THEN {"applied", "lost", "fatal"} ELSE {"applied"}) :
         IF outcome = "fatal"
         THEN /\ proc' = "crashed"
              /\ UNCHANGED <<clientMap, clients, hpc, hret>>
         ELSE /\ clientMap' = IF outcome = "applied"
                              THEN [clientMap EXCEPT ![args[p][1]] = client[p]]
                              ELSE clientMap
              /\ clients' = [clients EXCEPT ![client[p]].registered =
                                          proc = "serving" /\ outcome = "applied"]
              /\ HLeave(p, "nil")
              /\ UNCHANGED proc

\* client, ok := clientMap[id] begins: the read races with the writes
\* in progress.
LookupRaces(p) ==
    [q \in Procs |-> IF q = p THEN \E o \in Procs \ {p} : InWrite(o)
                              ELSE racy[q] \/ InWrite(q)]

\* Dbee_execute up to the lookup: the length check, the three arguments and
\* strconv.Atoi. args[2] of a two-element list is out of range: the
\* goroutine panics and the process stops.  With a buffer number, the map
\* read client, ok := clientMap[id] begins ...
Execute_begin(p, a) ==
    /\ HEnter(p, "execute", a)
    /\ UNCHANGED <<clientMap, clients, todo, client>>
    /\ racy' = IF Len(a) = 3 /\ a[3] = "7" THEN LookupRaces(p) ELSE racy
    /\ truth' = [truth EXCEPT ![p] = IF Len(a) = 2 \/ (Len(a) = 3 /\ a[3] # "7")
                                      THEN clientMap[a[1]] ELSE 0]
    /\ IF Len(a) < 2
       THEN HLeave(p, "not_enough_arguments") /\ UNCHANGED proc
       ELSE IF Len(a) < 3
       THEN HLeave(p, "panic") /\ proc' = "crashed"
       ELSE IF a[3] \notin {"7"}
       THEN HLeave(p, "atoi_error") /\ UNCHANGED proc
       ELSE hpc' = [hpc EXCEPT ![p] = "ex_looking"] /\ UNCHANGED <<hret, proc>>

\* Dbee_get_schema up to the lookup: the length check; the map read begins ...
Schema_begin(p, a) ==
    /\ HEnter(p, "schema", a)
    /\ UNCHANGED <<registry, client, truth>>
    /\ IF Len(a) < 1
       THEN HLeave(p, "not_enough_arguments") /\ UNCHANGED racy
       ELSE /\ hpc' = [hpc EXCEPT ![p] = "gs_looking"]
            /\ racy' = LookupRaces(p)
            /\ UNCHANGED hret

\* What a read of clientMap[id] that raced with a write may yield.
RacyReads(p) ==
    {clientMap[args[p][1]], 0}
        \cup {client[q] : q \in {o \in Procs : InWrite(o) /\ args[o][1] = args[p][1]}}

\* ... and ends. if !ok { return fmt.Errorf("client with id %s not registered") }
Lookup_end(p) ==
    /\ UNCHANGED <<driverVars, detailVars>>
    /\ Running
    /\ InRead(p)
    /\ racy' = [racy EXCEPT ![p] = FALSE]
    /\ truth' = [truth EXCEPT ![p] = clientMap[args[p][1]]]
    /\ UNCHANGED <<clientMap, clients, todo, hop, args>>
    /\ \/ /\ racy[p]
          /\ proc' = "crashed"
          /\ UNCHANGED <<hpc, hret, client>>
       \/ \E c \in (IF racy[p] THEN RacyReads(p) ELSE {clientMap[args[p][1]]}) :
            /\ UNCHANGED proc
            /\ client' = [client EXCEPT ![p] = c]
            /\ IF c = 0
               THEN HLeave(p, "unknown_connection")
               ELSE /\ hpc' = [hpc EXCEPT ![p] = IF hpc[p] = "ex_looking"
                                                 THEN "ex_run" ELSE "gs_run"]
                    /\ UNCHANGED hret

\* client.Execute(query) and out.Set(rows); client.Schema(). On a closed
\* client the call can only fail.
Client_run(p) ==
    /\ UNCHANGED <<driverVars, detailVars>>
    /\ Running
    /\ hpc[p] \in {"ex_run", "gs_run"}
    /\ \E r \in (IF clients[client[p]].closes = 0 THEN {"nil", "backend_error"}
                                                  ELSE {"backend_error"}) :
         HLeave(p, r)
    /\ UNCHANGED <<registry, hop, args, client, racy, truth>>

(***************************************************************************)
(* main's deferred loop: for _, c := range clientMap { c.Close() }. It     *)
(* runs when plugin.Main has returned; the handlers that are still running *)
(* go on until main returns.                                               *)
(***************************************************************************)
Present == {i \in Ids : clientMap[i] # 0}

Teardown_begin ==
    /\ UNCHANGED <<driverVars, detailVars>>
    /\ proc = "serving"
    /\ proc' = "sweeping"
    /\ todo' = Present
    /\ racy' = [q \in Procs |-> racy[q] \/ InWrite(q)]
    /\ UNCHANGED <<clientMap, clients, hpc, hop, args, client, hret, truth>>

\* One iteration: c.Close(). An entry stored since the range began may or
\* may not be visited; the range stops the process when it meets a write.
Teardown_close(i) ==
    /\ UNCHANGED <<driverVars, detailVars>>
    /\ proc = "sweeping"
    /\ i \in Present
    /\ i \in todo
    /\ todo' = todo \ {i}
    /\ UNCHANGED <<clientMap, hlocals>>
    /\ \/ /\ \E q \in Procs : InWrite(q)
          /\ proc' = "crashed"
          /\ UNCHANGED clients
       \/ /\ clients' = [clients EXCEPT ![clientMap[i]].closes = @ + 1]
          /\ UNCHANGED proc

\* The range picks up an entry stored after it began.
Teardown_seeNew(i) ==
    /\ UNCHANGED <<driverVars, detailVars>>
    /\ proc = "sweeping"
    /\ i \in Present \ todo
    /\ clients[clientMap[i]].closes = 0
    /\ todo' = todo \cup {i}
    /\ UNCHANGED <<clientMap, clients, proc, hlocals>>

\* The range is over; main returns and the process exits, and with it the
\* handlers that were still running.
Teardown_end ==
    /\ UNCHANGED <<driverVars, detailVars>>
    /\ proc = "sweeping"
    /\ todo \cap Present = {}
    /\ proc' = "exited"
    /\ hpc' = [p \in Procs |-> "idle"]
    /\ hop' = [p \in Procs |-> "none"]
    /\ args' = [p \in Procs |-> <<>>]
    /\ client' = [p \in Procs |-> 0]
    /\ hret' = [p \in Procs |-> "none"]
    /\ racy' = [p \in Procs |-> FALSE]
    /\ truth' = [p \in Procs |-> 0]
    /\ UNCHANGED <<clientMap, clients, todo>>

(***************************************************************************)
(* Structure() in detail: databricks_driver.go, Structure and               *)
(* getDatabricksStructureType.  Structure runs the tables query and hands  *)
(* the stream, with the classifier, to core.GetGenericStructure, which     *)
(* drains it and groups the rows by schema.                                *)
(***************************************************************************)
\* Bound: the number of rows of a grouping input.
MaxRows == 3

\* The table_schema values of the rows, the table_type values of the
\* grouping inputs, and the table_type values the classifier is tried on.
Schemas == {"s1", "s2"}
GroupKinds == {"TABLE", "EXTERNAL"}
KindStrings ==
    {"TABLE", "BASE TABLE", "SYSTEM TABLE", "VIEW", "SYSTEM VIEW",
     "MATERIALIZED_VIEW", "STREAMING_TABLE", "MANAGED",
     "", "table", "View", "Managed", "MATERIALIZED VIEW", "EXTERNAL", "FOREIGN"}

\* The results of the tables query: every sequence of up to MaxRows rows
\* over Schemas and GroupKinds, and one row of every kind string.  The
\* table_name of the k-th row is k, so that every row names its own object.
StructureRows ==
    UNION {{[i \in 1..n |-> [schema |-> f[i][1], name |-> i, typ |-> f[i][2]]] :
                f \in [1..n -> Schemas \X GroupKinds]} : n \in 0..MaxRows}
        \cup {<<[schema |-> "s1", name |-> 1, typ |-> k]>> : k \in KindStrings}

\* No Structure call in detail (the state of the other specifications).
IdleStructure ==
    /\ rows = <<>>
    /\ spc = "idle"
    /\ pos = 0
    /\ acc = <<>>
    /\ tree = <<>>
    /\ sret = ""
    /\ prev = <<>>

InitStructure ==
    /\ rows \in StructureRows
    /\ spc = "idle"
    /\ pos = 0
    /\ acc = <<>>
    /\ tree = <<>>
    /\ sret = ""
    /\ prev = <<>>

\* A classifier that does not know the SYSTEM kinds.
getDatabricksStructureType_noSystem(typ) ==
    CASE typ \in {"TABLE", "BASE TABLE"} -> "StructureTypeTable"
      [] typ \in {"VIEW"} -> "StructureTypeView"
      [] typ = "MATERIALIZED_VIEW" -> "StructureTypeMaterializedView"
      [] typ = "STREAMING_TABLE" -> "StructureTypeStreamingTable"
      [] typ = "MANAGED" -> "StructureTypeManaged"
      [] OTHER -> "StructureTypeNone"

\* func getDatabricksStructureType(typ string) core.StructureType: the
\* switch on typ, Go string equality (exact, case-sensitive).
getDatabricksStructureType(typ) ==
    CASE typ \in {"TABLE", "BASE TABLE", "SYSTEM TABLE"} -> "StructureTypeTable"
      [] typ \in {"VIEW", "SYSTEM VIEW"} -> "StructureTypeView"
      [] typ = "MATERIALIZED_VIEW" -> "StructureTypeMaterializedView"
      [] typ = "STREAMING_TABLE" -> "StructureTypeStreamingTable"
      [] typ = "MANAGED" -> "StructureTypeManaged"
      [] OTHER -> "StructureTypeNone"

\* Structure that takes a failed query for an empty result.
Structure_call_ignoreErr ==
    /\ spc \in {"idle", "done"}
    /\ \E ok \in BOOLEAN :
          IF ok
             THEN spc' = "draining" /\ tree' = <<>> /\ sret' = ""
             ELSE spc' = "done" /\ tree' = <<>> /\ sret' = "nil"
    /\ pos' = 0
    /\ acc' = <<>>
    /\ prev' = IF spc = "done" /\ sret = "nil" THEN <<tree>> ELSE prev
    /\ UNCHANGED <<rows, driverVars, mainVars, streamVars, listVars>>

\* rows, err := d.Query(ctx, catalogQuery); if err != nil { return nil, err }
\* and, without an error, the call of core.GetGenericStructure.  A call
\* that follows another keeps the tree of the last successful one in prev.
Structure_call ==
    /\ spc \in {"idle", "done"}
    /\ \E ok \in BOOLEAN :
          IF ok
             THEN spc' = "draining" /\ tree' = <<>> /\ sret' = ""
             ELSE spc' = "done" /\ tree' = <<>> /\ sret' = "error"
    /\ pos' = 0
    /\ acc' = <<>>
    /\ prev' = IF spc = "done" /\ sret = "nil" THEN <<tree>> ELSE prev
    /\ UNCHANGED <<rows, driverVars, mainVars, streamVars, listVars>>

\* return core.GetGenericStructure(rows, getDatabricksStructureType): the
\* classifier GetGenericStructure is called with.
structTypeFn(typ) == getDatabricksStructureType(typ)

\* The node of schema s in nodes, if there is one.
HasNode(nodes, s) == \E j \in 1..Len(nodes) : nodes[j].name = s

\* GetGenericStructure's grouping of one row: the object node goes under the
\* node of its schema, after the objects already there; a schema seen for
\* the first time gets a new node after the schemas already seen.
AddRow(nodes, row) ==
    LET child == [name |-> row.name, schema |-> row.schema,
                  type |-> structTypeFn(row.typ)]
    IN  IF HasNode(nodes, row.schema)
           THEN [j \in 1..Len(nodes) |->
                    IF nodes[j].name = row.schema
                       THEN [nodes[j] EXCEPT !.children = Append(@, child)]
                       ELSE nodes[j]]
           ELSE Append(nodes, [name |-> row.schema, type |-> "StructureTypeNone",
                               children |-> <<child>>])

\* GetGenericStructure: for rows.HasNext() { row, err := rows.Next() ... }.
\* A failing Next ends the call with nil and the error.
GetGenericStructure_next ==
    /\ spc = "draining"
    /\ pos < Len(rows)
    /\ \E ok \in BOOLEAN :
          IF ok
             THEN /\ acc' = AddRow(acc, rows[pos + 1])
                  /\ pos' = pos + 1
                  /\ UNCHANGED <<spc, tree, sret>>
             ELSE /\ spc' = "done"
                  /\ tree' = <<>>
                  /\ sret' = "error"
                  /\ acc' = <<>>
                  /\ pos' = 0
    /\ UNCHANGED <<rows, prev, driverVars, mainVars, streamVars, listVars>>

\* GetGenericStructure: the stream is exhausted; return the schema nodes.
GetGenericStructure_return ==
    /\ spc = "draining"
    /\ pos = Len(rows)
    /\ spc' = "done"
    /\ tree' = acc
    /\ sret' = "nil"
    /\ acc' = <<>>
    /\ pos' = 0
    /\ UNCHANGED <<rows, prev, driverVars, mainVars, streamVars, listVars>>

(***************************************************************************)
(* The stream of Query in detail: databricks_driver.go, Query, which       *)
(* returns the stream of builders.Client.QueryUntilNotEmpty.  The backend  *)
(* hands out its result page by page; the stream requests pages until one  *)
(* has a row or the backend signals end-of-data.                           *)
(***************************************************************************)
\* Bounds: the pages of a result and the rows of a page.
MaxPages == 3
MaxPageRows == 2

\* The results of the backend, as the row counts of their pages.
PagedResults == UNION {[1..n -> 0..MaxPageRows] : n \in 0..MaxPages}

\* No stream in detail (the state of the other specifications).
IdleStream ==
    /\ pages = <<>>
    /\ qpc = "idle"
    /\ page = 0
    /\ buf = 0
    /\ got = 0

InitStream ==
    /\ pages \in PagedResults
    /\ qpc = "idle"
    /\ page = 0
    /\ buf = 0
    /\ got = 0

\* Query that returns the stream of the first page alone.
Query_firstPage ==
    /\ qpc = "idle"
    /\ \E ok \in BOOLEAN :
          IF ok
             THEN /\ page' = Len(pages)
                  /\ buf' = IF Len(pages) > 0 THEN pages[1] ELSE 0
                  /\ qpc' = IF buf' > 0 THEN "ready" ELSE "paging"
             ELSE qpc' = "failed" /\ UNCHANGED <<page, buf>>
    /\ UNCHANGED <<pages, got, driverVars, mainVars, structureVars, listVars>>

\* func (d *databricksDriver) Query(ctx, query): return
\* d.c.QueryUntilNotEmpty(ctx, query), the stream or the error.
Query ==
    /\ qpc = "idle"
    /\ \E ok \in BOOLEAN :
          qpc' = IF ok THEN "paging" ELSE "failed"
    /\ UNCHANGED <<pages, page, buf, got, driverVars, mainVars, structureVars, listVars>>

\* The paging loop: request the next page; a page with a row ends the loop,
\* an empty page repeats it; a failing request exhausts the stream.
QueryUntilNotEmpty_request ==
    /\ qpc = "paging"
    /\ page < Len(pages)
    /\ \E ok \in BOOLEAN :
          IF ok
             THEN /\ page' = page + 1
                  /\ buf' = pages[page + 1]
                  /\ qpc' = IF pages[page + 1] >= 1 THEN "ready" ELSE "paging"
             ELSE qpc' = "failed" /\ UNCHANGED <<page, buf>>
    /\ UNCHANGED <<pages, got, driverVars, mainVars, structureVars, listVars>>

\* The paging loop: the backend signals end-of-data; HasNext() is false.
QueryUntilNotEmpty_endOfData ==
    /\ qpc = "paging"
    /\ page = Len(pages)
    /\ qpc' = "exhausted"
    /\ UNCHANGED <<pages, page, buf, got, driverVars, mainVars, structureVars, listVars>>

\* The caller's HasNext() is true and it calls Next(): one row of the
\* current page; after the page's last row the paging loop runs again.
ResultStream_Next ==
    /\ qpc = "ready"
    /\ buf' = buf - 1
    /\ got' = got + 1
    /\ qpc' = IF buf = 1 THEN "paging" ELSE "ready"
    /\ UNCHANGED <<pages, page, driverVars, mainVars, structureVars, listVars>>

(***************************************************************************)
(* ListDatabases() in detail: databricks_driver.go, ListDatabases.  A      *)
(* stream is released when it is drained (Next() has returned its last     *)
(* row, or HasNext() has reported false), when Next() has failed, or when  *)
(* it is closed.                                                           *)
(***************************************************************************)
\* Bound: the number of rows SHOW CATALOGS answers with.
MaxListRows == 3

\* row[0] of a row: a string (a catalog name) or a value of another type.
FirstValues ==
    {[isString |-> TRUE, val |-> c] : c \in Catalogs}
        \cup {[isString |-> FALSE, val |-> "int64"]}

ListResults == UNION {[1..n -> FirstValues] : n \in 0..MaxListRows}

\* No ListDatabases call in detail (the state of the other specifications).
IdleList ==
    /\ lrows = <<>>
    /\ lpc = "idle"
    /\ lpos = 0
    /\ available = <<>>
    /\ stream = "none"
    /\ lcur = ""
    /\ lavail = <<>>
    /\ lerr = ""

InitList ==
    /\ lrows \in ListResults
    /\ lpc = "idle"
    /\ lpos = 0
    /\ available = <<>>
    /\ stream = "none"
    /\ lcur = ""
    /\ lavail = <<>>
    /\ lerr = ""

\* rows, err := d.Query(ctx, query); if err != nil { return "", nil, err }
ListDatabases_query ==
    /\ driverOpen
    /\ lpc = "idle"
    /\ \E ok \in BOOLEAN :
          IF ok
             THEN /\ lpc' = "loop"
                  /\ stream' = "open"
                  /\ UNCHANGED <<lcur, lavail, lerr>>
             ELSE /\ lpc' = "done"
                  /\ lcur' = ""
                  /\ lavail' = <<>>
                  /\ lerr' = "error"
                  /\ UNCHANGED stream
    /\ UNCHANGED <<lrows, lpos, available, driverVars, mainVars,
                   structureVars, streamVars>>

\* ListDatabases whose non-string return hands out the names read so far.
ListDatabases_next_partial ==
    /\ lpc = "loop"
    /\ lpos < Len(lrows)
    /\ \E ok \in BOOLEAN :
          IF ~ok
             THEN /\ lpc' = "done"
                  /\ stream' = "released"
                  /\ lcur' = ""
                  /\ lavail' = <<>>
                  /\ lerr' = "error"
                  /\ UNCHANGED <<lpos, available>>
             ELSE /\ lpos' = lpos + 1
                  /\ IF ~lrows[lpos + 1].isString
                        THEN /\ lpc' = "done"
                             /\ lcur' = ""
                             /\ lavail' = available
                             /\ lerr' = "error"
                             /\ UNCHANGED available
                        ELSE /\ available' = Append(available, lrows[lpos + 1].val)
                             /\ UNCHANGED <<lpc, lcur, lavail, lerr>>
                  /\ stream' = IF lpos + 1 = Len(lrows) THEN "released" ELSE stream
    /\ UNCHANGED <<lrows, driverVars, mainVars, structureVars, streamVars>>

\* for rows.HasNext() { row, err := rows.Next(); if err != nil { return "",
\* nil, err }; catalog, ok := row[0].(string); if !ok { return "", nil,
\* fmt.Errorf(...) }; available = append(available, catalog) }: one pass of
\* the loop.  A failing Next exhausts the stream, and so does the Next that
\* returns the last row; the return for a value that is not a string does
\* nothing to the stream.
ListDatabases_next ==
    /\ lpc = "loop"
    /\ lpos < Len(lrows)
    /\ \E ok \in BOOLEAN :
          IF ~ok
             THEN /\ lpc' = "done"
                  /\ stream' = "released"
                  /\ lcur' = ""
                  /\ lavail' = <<>>
                  /\ lerr' = "error"
                  /\ UNCHANGED <<lpos, available>>
             ELSE /\ lpos' = lpos + 1
                  /\ IF ~lrows[lpos + 1].isString
                        THEN /\ lpc' = "done"
                             /\ lcur' = ""
                             /\ lavail' = <<>>
                             /\ lerr' = "error"
                             /\ UNCHANGED available
                        ELSE /\ available' = Append(available, lrows[lpos + 1].val)
                             /\ UNCHANGED <<lpc, lcur, lavail, lerr>>
                  /\ stream' = IF lpos + 1 = Len(lrows) THEN "released" ELSE stream
    /\ UNCHANGED <<lrows, driverVars, mainVars, structureVars, streamVars>>

\* rows.HasNext() is false (the stream is exhausted):
\* return d.currentCatalog, available, nil
ListDatabases_end ==
    /\ lpc = "loop"
    /\ lpos = Len(lrows)
    /\ lpc' = "done"
    /\ stream' = "released"
    /\ lcur' = currentCatalog
    /\ lavail' = available
    /\ lerr' = "nil"
    /\ UNCHANGED <<lrows, lpos, available, driverVars, mainVars,
                   structureVars, streamVars>>

Init == InitDriver /\ InitMain /\ IdleStructure /\ IdleStream /\ IdleList

Next ==
    \/ \E u \in ConnectionStrings : Connect(u)
    \/ \E p \in Procs : Caller_drop(p)
    \/ \E p \in Procs, n \in Catalogs : SelectDatabase_setURL(p, n)
    \/ \E p \in Procs : SelectDatabase_open(p)
    \/ \E p \in Procs : SelectDatabase_setCatalog(p)
    \/ \E p \in Procs : Swap_exchange(p)
    \/ \E p \in Procs : Swap_closeOld(p)
    \/ \E p \in Procs : SelectDatabase_return(p)
    \/ \E p \in Procs : Query_start(p)
    \/ \E p \in Procs : Query_run(p)
    \/ \E p \in Procs : Structure_start(p)
    \/ \E p \in Procs : Structure_query(p)
    \/ \E p \in Procs : Structure_run(p)
    \/ \E p \in Procs : ListDatabases_start(p)
    \/ \E p \in Procs : ListDatabases_run(p)
    \/ \E p \in Procs : ListDatabases_return(p)

Spec == Init /\ [][Next]_vars

NextMain ==
    \/ \E p \in Procs : Handler_drop(p)
    \/ \E p \in Procs, a \in RegisterArgs : Register_new(p, a)
    \/ \E p \in Procs : Register_storeEnd(p)
    \/ \E p \in Procs, a \in ExecuteArgs : Execute_begin(p, a)
    \/ \E p \in Procs, a \in SchemaArgs : Schema_begin(p, a)
    \/ \E p \in Procs : Lookup_end(p)
    \/ \E p \in Procs : Client_run(p)
    \/ Teardown_begin
    \/ \E i \in Ids : Teardown_close(i)
    \/ \E i \in Ids : Teardown_seeNew(i)
    \/ Teardown_end

SpecMain == Init /\ [][NextMain]_vars

NextStructure ==
    \/ Structure_call
    \/ GetGenericStructure_next
    \/ GetGenericStructure_return

\* The rows are the backend's; the driver and main.go are as constructed.
InitOfStructure == InitDriver /\ InitMain /\ InitStructure /\ IdleStream /\ IdleList

SpecStructure == InitOfStructure /\ [][NextStructure]_vars

NextStream ==
    \/ Query
    \/ QueryUntilNotEmpty_request
    \/ QueryUntilNotEmpty_endOfData
    \/ ResultStream_Next

\* The result is the backend's; the driver and main.go are as constructed.
InitOfStream == InitDriver /\ InitMain /\ IdleStructure /\ InitStream /\ IdleList

\* The caller calls Next() for as long as HasNext() is true, and the paging
\* loop keeps running: every step that can be taken eventually is.
SpecStream == InitOfStream /\ [][NextStream]_vars /\ WF_vars(NextStream)

NextList ==
    \/ \E u \in ConnectionStrings : Connect(u)
    \/ ListDatabases_query
    \/ ListDatabases_next
    \/ ListDatabases_end

\* The rows are the backend's; the driver is yet to be connected.
InitOfList == InitDriver /\ InitMain /\ IdleStructure /\ IdleStream /\ InitList

SpecList == InitOfList /\ [][NextList]_vars

(***************************************************************************)
(* Properties of the driver (Spec)                                         *)
(***************************************************************************)

\* C1: a SelectDatabase that fails at the open step leaves the driver as it
\* was when the call began: the live handle, currentCatalog and the catalog
\* parameter of connectionURL are unchanged.
C1_FailedSwitchLeavesDriverUntouched ==
    [][\A p \in Procs :
         (pc[p] = "sd_open" /\ pc'[p] = "done") =>
            /\ db' = pre[p].db
            /\ currentCatalog' = pre[p].cat
            /\ connectionURL'.catalog = pre[p].url]_vars

\* C2: when SelectDatabase(name) returns nil, currentCatalog is name and the
\* client's live handle is the open handle this call opened, against the
\* target whose catalog parameter is name; calls started afterwards read
\* these two.
C2_SuccessfulSwitchTakesEffect ==
    [][\A p \in Procs :
         (pc[p] = "sd_return" /\ pc'[p] = "done") =>
            /\ currentCatalog' = name[p]
            /\ db' = newdb[p]
            /\ handles'[db'].closes = 0
            /\ handles'[db'].cat = name[p]]_vars

\* C3: after two concurrent SelectDatabase calls have both returned nil,
\* every handle they opened is the live one or has been closed exactly once,
\* and currentCatalog, the catalog parameter of connectionURL and the catalog
\* of the live handle are the same.
BothSwitched ==
    \A p \in Procs : pc[p] = "done" /\ op[p] = "SelectDatabase" /\ ret[p] = "ok"

C3_ConcurrentSwitchesSerialized ==
    BothSwitched =>
        /\ \A h \in 1..Len(handles) :
             handles[h].by # 0 =>
                \/ h = db /\ handles[h].closes = 0
                \/ h # db /\ handles[h].closes = 1
        /\ currentCatalog = connectionURL.catalog
        /\ handles[db].cat = currentCatalog

\* C4: in a successful SelectDatabase the previous handle is closed only
\* after the live handle has been replaced, and exactly once: no handle is
\* closed twice, a closed handle is never the live one, the live handle is
\* always a complete open handle; a query in flight keeps the handle it
\* started on, and succeeds only if that handle is still open.
InQuery(p) == pc[p] \in {"q_run", "st_run", "ld_run"}

C4_HandlesClosedAfterSwapOnce ==
    /\ \A h \in 1..Len(handles) :
         /\ handles[h].closes <= 1
         /\ handles[h].closes = 1 => h # db
    /\ driverOpen => IsOpen(db)
    /\ \A p \in Procs : InQuery(p) => qh[p] \in 1..Len(handles)

C4_QueryStaysOnItsHandle ==
    \A p \in Procs :
        /\ (InQuery(p) /\ pc'[p] = pc[p]) => qh'[p] = qh[p]
        /\ (InQuery(p) /\ pc'[p] = "done" /\ ret'[p] = "ok") => IsOpen(qh[p])
        /\ \A h \in 1..Len(handles) :
             handles'[h].closes > handles[h].closes => h # db

C10_ConnectLeavesNoHandleOnError ==
    connectResult \in {"parse_error", "open_error", "missing_catalog"} =>
        \A h \in 1..Len(handles) : ~IsOpen(h)

(***************************************************************************)
(* Properties of main.go (SpecMain)                                        *)
(***************************************************************************)

\* C5: a Dbee_register_client call that returns an error leaves clientMap as
\* it was: the call's one step changes no entry, and no earlier step of the
\* call has written; an unsupported type yields the unsupported error.
RegisterFails(p) ==
    /\ hop'[p] = "register"
    /\ hpc[p] # "done"
    /\ hpc'[p] = "done"
    /\ hret'[p] # "nil"

C5_FailedRegisterLeavesRegistry ==
    [][\A p \in Procs :
         /\ RegisterFails(p) =>
              /\ hpc[p] = "idle"
              /\ clientMap' = clientMap
              /\ hret'[p] \in {"not_enough_arguments", "unsupported", "connect_error"}
         /\ (hop'[p] = "register" /\ hpc[p] # "done" /\ hpc'[p] = "done"
               /\ Len(args'[p]) >= 3 /\ args'[p][3] \notin {"postgres", "redis"})
              => hret'[p] = "unsupported"]_vars

\* C5's case: a registration under an id that already has an entry has
\* failed in the constructor, and the entry is still there.
C5_Witness ==
    \E p \in Procs :
        /\ hpc[p] = "done"
        /\ hop[p] = "register"
        /\ hret[p] = "connect_error"
        /\ clientMap[args[p][1]] # 0

\* C6: Dbee_execute(id, query, ...) and Dbee_get_schema(id) return the
\* unknown-connection error exactly when the map has no entry for id, and
\* then no client is called; when it has one, the call goes to that client.
LooksUp(p) ==
    \/ hop[p] = "execute" /\ Len(args[p]) >= 2
    \/ hop[p] = "schema" /\ Len(args[p]) >= 1

C6_UnknownConnectionExactlyWhenAbsent ==
    \A p \in Procs :
        (hpc[p] = "done" /\ LooksUp(p)) =>
            /\ hret[p] = "unknown_connection" <=> truth[p] = 0
            /\ client[p] = truth[p]

\* C7: no write of clientMap overlaps another access of it, the deferred
\* loop's range included, and the deferred loop closes no client that a
\* running Dbee_execute is using.
C7_NoOverlap ==
    \A p \in Procs :
        InWrite(p) =>
            /\ proc # "sweeping"
            /\ \A q \in Procs \ {p} : ~InWrite(q) /\ ~InRead(q)

C7_NoCloseUnderExecute ==
    \A p \in Procs :
        (hpc[p] = "ex_run" /\ hpc'[p] = "ex_run") =>
            clients'[client[p]].closes = clients[client[p]].closes

C7_MapAccessMutuallyExclusive ==
    [](C7_NoOverlap) /\ [][C7_NoCloseUnderExecute]_vars

\* C8: two Dbee_register_client calls with distinct ids that both return
\* nil leave both ids resolving, each to the client of its own call.
C8_DistinctRegistrationsBothResolve ==
    (/\ \A p \in Procs : hpc[p] = "done" /\ hop[p] = "register" /\ hret[p] = "nil"
     /\ \A p, q \in Procs : p # q => args[p][1] # args[q][1])
        => \A p \in Procs : clientMap[args[p][1]] = client[p]

\* C9: when the deferred loop is over, every client of a registration that
\* returned nil before the loop began has had Close called on it
\* (registered: the registration returned nil while the process served,
\* and its store took effect).
C9_TeardownClosesEveryClient ==
    proc = "exited" =>
        \A c \in 1..Len(clients) : clients[c].registered => clients[c].closes >= 1

\* C11: Dbee_register_client resolves the type through the adapter registry:
\* a type name under which a backend has registered itself at process start
\* ("databricks") is accepted, never refused as unsupported.  (What other
\* backends register is not in the source, so the refusal of every other
\* name is left out.)
C11_TypeResolvedThroughAdapterRegistry ==
    \A p \in Procs :
        (hop[p] = "register" /\ hpc[p] # "idle" /\ Len(args[p]) >= 3
            /\ args[p][3] \in adapterRegistry)
                => hret[p] # "unsupported"

\* C16: Dbee_execute reads no argument it was not given: it never panics,
\* and a list shorter than the three elements it uses gets the
\* not-enough-arguments error.
C16_ExecuteReadsOnlyGivenArguments ==
    \A p \in Procs :
        (hop[p] = "execute" /\ hpc[p] = "done") =>
            /\ hret[p] # "panic"
            /\ Len(args[p]) < 3 => hret[p] = "not_enough_arguments"

(***************************************************************************)
(* Properties of the driver under concurrent observers (Spec)              *)
(***************************************************************************)

\* C15: the switch is observed atomically: a Structure call never runs a
\* query written for one catalog on the handle of another, and
\* currentCatalog always names the catalog of the live handle.
C15_SwitchObservedAtomically ==
    /\ driverOpen => handles[db].cat = currentCatalog
    /\ \A p \in Procs : pc[p] = "st_run" => handles[qh[p]].cat = qcat[p]

(***************************************************************************)
(* Claims about Structure() in detail (SpecStructure).                     *)
(***************************************************************************)
\* The object nodes of a list of schema nodes.
Objects(nodes) ==
    UNION {{nodes[j].children[k] : k \in 1..Len(nodes[j].children)} :
               j \in 1..Len(nodes)}

\* C12: the classifier gives every kind string exactly the type of the
\* table (TABLE, BASE TABLE, SYSTEM TABLE: Table; VIEW, SYSTEM VIEW: View;
\* MATERIALIZED_VIEW: MaterializedView; STREAMING_TABLE: StreamingTable;
\* MANAGED: Managed; anything else, the empty string and other spellings
\* included: None), and an object of an unrecognised kind is kept: every
\* row the fold has consumed, and every row of a returned tree, has its
\* object node, with the type of the table.
C12_ClassifierTotalAndKeepsUnknown ==
    LET nodes == IF spc = "draining" THEN acc ELSE tree
        n == IF spc = "draining" THEN pos
             ELSE IF spc = "done" /\ sret = "nil" THEN Len(rows) ELSE 0
    IN  \A r \in 1..n :
            \E o \in Objects(nodes) :
                /\ o.name = rows[r].name
                /\ o.type =
                     CASE rows[r].typ \in {"TABLE", "BASE TABLE", "SYSTEM TABLE"}
                             -> "StructureTypeTable"
                       [] rows[r].typ \in {"VIEW", "SYSTEM VIEW"}
                             -> "StructureTypeView"
                       [] rows[r].typ = "MATERIALIZED_VIEW"
                             -> "StructureTypeMaterializedView"
                       [] rows[r].typ = "STREAMING_TABLE"
                             -> "StructureTypeStreamingTable"
                       [] rows[r].typ = "MANAGED" -> "StructureTypeManaged"
                       [] OTHER -> "StructureTypeNone"

\* C12's case: a tree was returned for a row of an unrecognised kind, and
\* the row's object is in it.
C12_Witness ==
    /\ spc = "done"
    /\ sret = "nil"
    /\ Len(rows) = 1
    /\ rows[1].typ = "table"
    /\ \E o \in Objects(tree) : o.name = 1 /\ o.type = "StructureTypeNone"

\* The first row of schema s.
FirstSeen(s) == CHOOSE r \in 1..Len(rows) :
                    /\ rows[r].schema = s
                    /\ \A q \in 1..(r - 1) : rows[q].schema # s

RECURSIVE RowsFrom(_)
RowsFrom(i) == IF i > Len(pages) THEN 0 ELSE pages[i] + RowsFrom(i + 1)

C17_ListDatabasesReleasesItsStream ==
    lpc = "done" => stream \in {"none", "released"}

\* C18: ListDatabases is all-or-nothing: a call that returns an error
\* returns the empty current and no list; a call that returns nil returns
\* currentCatalog and the first values of all the rows, in row order; and
\* it is read-only: no step of it changes currentCatalog, connectionURL,
\* the live handle or the handles.
C18_ListDatabasesAllOrNothingReadOnly ==
    /\ []((lpc = "done" /\ lerr = "error") => (lcur = "" /\ lavail = <<>>))
    /\ []((lpc = "done" /\ lerr = "nil") =>
             /\ lcur = currentCatalog
             /\ Len(lavail) = Len(lrows)
             /\ \A i \in 1..Len(lrows) :
                   lrows[i].isString /\ lavail[i] = lrows[i].val)
    /\ [][listVars' # listVars =>
             UNCHANGED <<currentCatalog, connectionURL, db, handles>>]_vars

\* C18's case: a call has failed at a value that is not a string after it
\* had read a name.
C18_Witness ==
    /\ lpc = "done"
    /\ lerr = "error"
    /\ lpos = 2
    /\ available # <<>>
    /\ ~lrows[2].isString

=============================================================================
